---- MODULE Spec2Model ----
(***************************************************************************)
(* A model of synth.c: a control thread that enqueues notes on per-voice   *)
(* ring buffers (playOsc/restOsc/endOsc) and shuts the synth down          *)
(* (termSynth), and the audio thread's render callback (paCallback) that   *)
(* dequeues, renders and posts each voice's `finished` semaphore.          *)
(*                                                                         *)
(* Shared memory is touched by paCallback only in its first loop (one ring *)
(* buffer read and at most one sem_post per voice), so that loop is one    *)
(* step per voice; the sample loop and the bookkeeping loop touch only the *)
(* audio thread's own fields and are one step each.                        *)
(***************************************************************************)
EXTENDS Integers, Sequences, FiniteSets, TLC

\* ---------------------------------------------------------------- constants
SAMPLE_RATE == 44100
FRAMES_PER_BUFFER == 210
TABLE_SIZE == 210
NUM_OSCILLATORS == 2

\* ------------------------------------------------------------------- bounds
\* Capacity of each ring buffer. synth.c allocates 1024 elements; the model
\* keeps the capacity a parameter and checks with small ones, so that a full
\* queue is reached within MaxCalls calls.
RingCapacity == 1
\* The control thread makes at most MaxCalls play/rest/end calls before it
\* calls termSynth.
MaxCalls == 2
\* Durations are drawn from {0, 1, MaxMs} milliseconds: 0 frames, less than one
\* buffer, and more than two buffers.
MaxMs == 10

Voices == 0 .. (NUM_OSCILLATORS - 1)
\* the ids a caller may pass: every valid one and one that is too large
Ids == 0 .. NUM_OSCILLATORS
Durations == {0, 1, MaxMs}
Freqs == {440}

\* enum note_type
NOTE == "NOTE"
REST == "REST"
WAITING == "WAITING"
END == "END"
NoteTypes == {NOTE, REST, WAITING, END}

\* struct note
Note(t, ms, hz) == [type |-> t, ms |-> ms, hz |-> hz]

\* what the audio thread stores when it has nothing to play (lines 115-117
\* and 122-124)
WaitingNoteOneMs == Note(WAITING, 1, 0)
WaitingNote == Note(WAITING, 0, 0)

\* every value a struct note can hold within the model's field domains: what
\* a read of freed ring-buffer storage may return
AnyNote == [type : NoteTypes, ms : Durations, hz : Freqs \cup {0}]

\* ------------------------------------------------- unsigned long arithmetic
\* num_frames is an unsigned long. A value x is kept as its two's complement
\* representative: x itself when small, x - 2^64 when x is within a small
\* distance below 2^64 (the only values the program produces), so ULONG_MAX is
\* -1. Subtraction is then plain subtraction and the unsigned order puts the
\* negative representatives above the others.
ULONG_MAX == 0 - 1

USub(a, b) == a - b

UGeStrict(a, b) == IF (a >= 0) = (b >= 0) THEN a > b ELSE a < 0
UGe(a, b) == IF (a >= 0) = (b >= 0) THEN a >= b ELSE a < 0

\* line 128: (ms/1000.0) * SAMPLE_RATE, converted to unsigned long by
\* truncation. For 0 <= ms < 350 the double product truncates to the same
\* integer as the exact product.
NumFramesRounded(ms) == ((ms * SAMPLE_RATE) + 500) \div 1000
NumFrames(ms) == (ms * SAMPLE_RATE) \div 1000

\* ------------------------------------------------------------- ring buffer
\* PaUtil_WriteRingBuffer(rbuf, &n, 1): the number of elements written, 1 if
\* there is room and 0 if the buffer holds its capacity.
WriteCountAlways(q) == 1
WriteCount(q) == IF Len(q) < RingCapacity THEN 1 ELSE 0

\* the buffer after PaUtil_WriteRingBuffer(rbuf, &n, 1)
RingWrite(q, n) == IF WriteCount(q) = 1 THEN Append(q, n) ELSE q

\* PaUtil_ReadRingBuffer(rbuf, &curr_note, 1): the number of elements read
ReadCount(q) == IF Len(q) > 0 THEN 1 ELSE 0

\* the buffer after PaUtil_ReadRingBuffer(rbuf, &curr_note, 1)
RingAfterReadKeep(q) == q
RingAfterRead(q) == IF Len(q) > 0 THEN Tail(q) ELSE q

\* the values the read may store in curr_note: the oldest element, or, when
\* the storage has been freed, whatever the freed memory holds
ReadValues(q, ptr) == IF ptr = "freed" THEN AnyNote ELSE {Head(q)}

\* ------------------------------------------------------------------- state
VARIABLES
    oscillators,  \* struct osc oscillators[NUM_OSCILLATORS]
    stream,       \* the PortAudio stream: "running", "stopped", "closed"
    cb_pc,        \* paCallback: "idle" (not running), "phase1", "phase2", "phase3"
    cb_i,         \* paCallback: index of its first loop
    ctl_pc,       \* control thread: "client", then termSynth's steps
    term_i,       \* termSynth: index of its loop
    calls,        \* play/rest/end calls made so far
    invalid_calls,\* play/rest/end calls made with an id >= NUM_OSCILLATORS
    accepted,     \* per voice: the notes written to its ring buffer, in order
    dropped,      \* per voice: the notes whose write wrote nothing, in order
    dequeued,     \* per voice: the notes read from its ring buffer, in order
    posts,        \* per voice: sem_post calls on its semaphore
    played,       \* per voice: frames each finished dequeued note was current
    cur_frames,   \* per voice: frames rendered since the current note was loaded
    uaf           \* per voice: a note was read from freed storage

vars == <<oscillators, stream, cb_pc, cb_i, ctl_pc, term_i, calls, invalid_calls,
          accepted, dropped, dequeued, posts, played, cur_frames, uaf>>

ctl_vars == <<ctl_pc, term_i>>
cb_vars == <<cb_pc, cb_i>>
hist_cb == <<dequeued, posts, played, cur_frames, uaf>>
hist_ctl == <<invalid_calls, accepted, dropped>>

\* initOscillators, lines 247-267; curr_note is zero-initialised static
\* storage, and NOTE is the enum's 0
InitOsc ==
    [rbuf |-> <<>>,
     rbuf_ptr |-> "alloc",
     vol |-> 0,
     left_phase |-> 0,
     right_phase |-> 0,
     frames_played |-> 0 - 1,
     num_frames |-> ULONG_MAX,
     curr_note |-> Note(NOTE, 0, 0),
     finished |-> 0]

\* initSynth, lines 291-337: tables, oscillators, stream opened and started
Init ==
    /\ oscillators = [v \in Voices |-> InitOsc]
    /\ stream = "running"
    /\ cb_pc = "idle"
    /\ cb_i = 0
    /\ ctl_pc = "client"
    /\ term_i = 0
    /\ calls = 0
    /\ invalid_calls = 0
    /\ accepted = [v \in Voices |-> <<>>]
    /\ dropped = [v \in Voices |-> <<>>]
    /\ dequeued = [v \in Voices |-> <<>>]
    /\ posts = [v \in Voices |-> 0]
    /\ played = [v \in Voices |-> <<>>]
    /\ cur_frames = [v \in Voices |-> 0]
    /\ uaf = [v \in Voices |-> FALSE]

\* ---------------------------------------------------------- control thread
\* lines 207-210, 221-224, 235-238: the voices a call with this id writes to,
\* none when the id is too large
TargetClamped(id) == IF id >= NUM_OSCILLATORS THEN {NUM_OSCILLATORS - 1} ELSE {id}
Target(id) == IF id >= NUM_OSCILLATORS THEN {} ELSE {id}

\* lines 216, 230, 244: the voice after PaUtil_WriteRingBuffer(&rbuf, &n, 1),
\* which touches the ring buffer and nothing else
WrittenAndReset(o, n) == [o EXCEPT !.rbuf = RingWrite(@, n), !.frames_played = 0 - 1]
Written(o, n) == [o EXCEPT !.rbuf = RingWrite(@, n)]

\* playOsc, restOsc and endOsc: the id test of lines 207-210, 221-224, 235-238
\* and the write of lines 216, 230, 244. The return value of
\* PaUtil_WriteRingBuffer is ignored, so a write to a full buffer is lost.
Enqueue(id, n) ==
    /\ ctl_pc = "client"
    /\ calls < MaxCalls
    /\ calls' = calls + 1
    /\ invalid_calls' = IF id >= NUM_OSCILLATORS THEN invalid_calls + 1 ELSE invalid_calls
    /\ oscillators' = [v \in Voices |->
                         IF v \in Target(id)
                         THEN Written(oscillators[v], n)
                         ELSE oscillators[v]]
    /\ accepted' = [v \in Voices |->
                      IF v \in Target(id) /\ WriteCount(oscillators[v].rbuf) = 1
                      THEN Append(accepted[v], n)
                      ELSE accepted[v]]
    /\ dropped' = [v \in Voices |->
                     IF v \in Target(id) /\ WriteCount(oscillators[v].rbuf) = 0
                     THEN Append(dropped[v], n)
                     ELSE dropped[v]]
    /\ UNCHANGED <<stream, cb_vars, ctl_vars, hist_cb>>

\* lines 204-217
playOsc ==
    \E id \in Ids, ms \in Durations, hz \in Freqs :
        Enqueue(id, Note(NOTE, ms, hz))

\* lines 219-231
restOsc == \E id \in Ids, ms \in Durations : Enqueue(id, Note(REST, ms, 0))

\* lines 233-245
endOsc == \E id \in Ids : Enqueue(id, Note(END, 0, 0))

\* lines 204-217 and 233-245, as called by a client that shuts down: it plays
\* notes of the longest duration and ends voices
playOscBeforeShutdown ==
    \E id \in Ids, hz \in Freqs : Enqueue(id, Note(NOTE, MaxMs, hz))

endOscBeforeShutdown == \E id \in Ids : Enqueue(id, Note(END, 0, 0))

\* termSynth is called (line 339)
termSynth_enter ==
    /\ ctl_pc = "client"
    /\ ctl_pc' = "sem_wait"
    /\ term_i' = 0
    /\ UNCHANGED <<oscillators, stream, cb_vars, calls, hist_ctl, hist_cb>>

\* line 345: sem_wait blocks until the semaphore is positive
termSynth_wait ==
    /\ ctl_pc = "sem_wait"
    /\ oscillators[term_i].finished > 0
    /\ oscillators' = [oscillators EXCEPT ![term_i].finished = @ - 1]
    /\ ctl_pc' = "free"
    /\ UNCHANGED <<stream, cb_vars, term_i, calls, hist_ctl, hist_cb>>

\* line 346, and the loop's step (line 344)
termSynth_free ==
    /\ ctl_pc = "free"
    /\ oscillators' = [oscillators EXCEPT ![term_i].rbuf_ptr = "freed"]
    /\ IF term_i + 1 < NUM_OSCILLATORS
       THEN term_i' = term_i + 1 /\ ctl_pc' = "sem_wait"
       ELSE term_i' = term_i /\ ctl_pc' = "stop"
    /\ UNCHANGED <<stream, cb_vars, calls, hist_ctl, hist_cb>>

\* line 349: Pa_StopStream returns once the callback is not running, and the
\* callback is not invoked again
termSynth_stop ==
    /\ ctl_pc = "stop"
    /\ cb_pc = "idle"
    /\ stream' = "stopped"
    /\ ctl_pc' = "close"
    /\ UNCHANGED <<oscillators, cb_vars, term_i, calls, hist_ctl, hist_cb>>

\* lines 356-362
termSynth_close ==
    /\ ctl_pc = "close"
    /\ stream' = "closed"
    /\ ctl_pc' = "done"
    /\ UNCHANGED <<oscillators, cb_vars, term_i, calls, hist_ctl, hist_cb>>

\* ------------------------------------------------------------ audio thread
\* line 112
NeedsNoteAlways(o) == TRUE
NeedsNoteOrQueued(o) == o.frames_played = 0 - 1 \/ o.rbuf # <<>>
NeedsNote(o) == o.frames_played = 0 - 1

\* lines 120-125: an END is replaced by the waiting note
Reduce(n) == IF n.type = END THEN WaitingNote ELSE n

\* lines 120-121: sem_post for an END
PostCountNone(n) == 0
PostCount(n) == IF n.type = END THEN 1 ELSE 0

\* lines 113-128 for a voice without a current note: q2 is the ring buffer
\* after the read and n what curr_note holds after lines 113-118
Loaded(o, q2, n) ==
    [o EXCEPT !.rbuf = q2,
              !.curr_note = Reduce(n),
              !.finished = @ + PostCount(n),
              !.frames_played = 0,
              !.num_frames = NumFrames(Reduce(n).ms)]

\* the frames a note has been current, kept up to a value no finishing note
\* reaches (a note that never finishes would count forever)
FramesCap == NumFrames(MaxMs) + (3 * FRAMES_PER_BUFFER)
CountFrames(c) == IF c + FRAMES_PER_BUFFER > FramesCap THEN FramesCap ELSE c + FRAMES_PER_BUFFER

\* the driver invokes paCallback (line 101) while the stream runs
paCallback_enter ==
    /\ stream = "running"
    /\ cb_pc = "idle"
    /\ cb_pc' = "phase1"
    /\ cb_i' = 0
    /\ UNCHANGED <<oscillators, stream, ctl_vars, calls, hist_ctl, hist_cb>>

\* lines 110-130: one iteration of the first loop
paCallback_refill ==
    /\ cb_pc = "phase1"
    /\ LET i == cb_i
           o == oscillators[cb_i]
       IN  IF NeedsNote(o)
           THEN IF ReadCount(o.rbuf) = 0
                THEN /\ oscillators' = [oscillators EXCEPT ![i] = Loaded(o, o.rbuf, WaitingNote)]
                     /\ cur_frames' = [cur_frames EXCEPT ![i] = 0]
                     /\ UNCHANGED <<dequeued, posts, uaf>>
                ELSE \E n \in ReadValues(o.rbuf, o.rbuf_ptr) :
                     /\ oscillators' = [oscillators EXCEPT
                                          ![i] = Loaded(o, RingAfterRead(o.rbuf), n)]
                     /\ dequeued' = [dequeued EXCEPT ![i] = Append(@, n)]
                     /\ posts' = [posts EXCEPT
                                    ![i] = @ + (oscillators'[i].finished - o.finished)]
                     /\ uaf' = [uaf EXCEPT ![i] = @ \/ (o.rbuf_ptr = "freed")]
                     /\ cur_frames' = [cur_frames EXCEPT ![i] = 0]
           ELSE UNCHANGED <<oscillators, dequeued, posts, uaf, cur_frames>>
    /\ IF cb_i + 1 < NUM_OSCILLATORS
       THEN cb_i' = cb_i + 1 /\ cb_pc' = cb_pc
       ELSE cb_i' = 0 /\ cb_pc' = "phase2"
    /\ UNCHANGED <<stream, ctl_vars, calls, hist_ctl, played>>

\* lines 141-151 at sample i: vol, kept as its numerator over framesPerBuffer
VolNoRampDown(o, i) == IF o.frames_played = 0 THEN i + 1 ELSE FRAMES_PER_BUFFER
Vol(o, i) ==
    IF o.frames_played = 0
    THEN i + 1
    ELSE IF UGe(o.frames_played, USub(o.num_frames, FRAMES_PER_BUFFER))
         THEN FRAMES_PER_BUFFER - (i + 1)
         ELSE FRAMES_PER_BUFFER

\* lines 180-182
Silent(o) == o.curr_note.type \in {REST, WAITING, END}

\* lines 179-190: a channel of the frame getNextFrame returns, as the index of
\* the table element it holds and the factor applied to that element, the
\* factor kept as its numerator over framesPerBuffer. A silent channel is 0;
\* the other is table[(int)phase], as it is in the table.
Zero == [index |-> 0, gain |-> 0]
TableAt(p) == [index |-> p \div TABLE_SIZE, gain |-> FRAMES_PER_BUFFER]

\* lines 179-190: the frame getNextFrame returns
getNextFrame(o) ==
    IF Silent(o)
    THEN [left |-> Zero, right |-> Zero]
    ELSE [left |-> TableAt(o.left_phase), right |-> TableAt(o.right_phase)]

\* lines 193-198 for one phase, kept as its numerator over TABLE_SIZE (hz is a
\* whole number)
NextPhaseNoWrap(p, hz) == p + hz
NextPhase(p, hz) ==
    IF p + hz >= TABLE_SIZE * TABLE_SIZE
    THEN (p + hz) - (TABLE_SIZE * TABLE_SIZE)
    ELSE p + hz

\* the phase after n calls of getNextFrame. The n steps are taken as two
\* halves, the second starting from the value q the first one ends with.
RECURSIVE PhaseAfter(_, _, _)
PhaseAfter(p, hz, n) ==
    IF n = 0 THEN p
    ELSE IF n = 1 THEN NextPhase(p, hz)
    ELSE CHOOSE r \in {PhaseAfter(q, hz, n - (n \div 2)) :
                           q \in {PhaseAfter(p, hz, n \div 2)}} : TRUE

\* lines 153-155 at sample i: the frame getNextFrame returns for the voice,
\* its i earlier calls having advanced the phases, and the number it is
\* divided by as it is added to the output frame
Contribution(o, i) ==
    [frame |-> IF Silent(o)
               THEN getNextFrame(o)
               ELSE getNextFrame([o EXCEPT
                        !.left_phase = PhaseAfter(@, o.curr_note.hz, i),
                        !.right_phase = PhaseAfter(@, o.curr_note.hz, i)]),
     over |-> NUM_OSCILLATORS]

\* lines 132-160 for one voice: the fields after the framesPerBuffer samples
RenderBuffer(o) ==
    [o EXCEPT !.vol = Vol(o, FRAMES_PER_BUFFER - 1),
              !.left_phase = IF Silent(o) THEN @
                             ELSE PhaseAfter(@, o.curr_note.hz, FRAMES_PER_BUFFER),
              !.right_phase = IF Silent(o) THEN @
                              ELSE PhaseAfter(@, o.curr_note.hz, FRAMES_PER_BUFFER)]

\* lines 132-160: the sample loop
paCallback_render ==
    /\ cb_pc = "phase2"
    /\ oscillators' = [v \in Voices |-> RenderBuffer(oscillators[v])]
    /\ cur_frames' = [v \in Voices |-> CountFrames(cur_frames[v])]
    /\ cb_pc' = "phase3"
    /\ UNCHANGED <<stream, cb_i, ctl_vars, calls, hist_ctl, dequeued, posts, played, uaf>>

\* lines 163-164
Advance(o) ==
    IF o.curr_note.type # WAITING
    THEN [o EXCEPT !.frames_played = @ + FRAMES_PER_BUFFER]
    ELSE o

\* line 167: frames_played is converted to unsigned long for the comparison
NoteFinishedStrict(o) == UGeStrict(o.frames_played, o.num_frames)
NoteFinishedEarly(o) == TRUE
NoteFinished(o) == UGe(o.frames_played, o.num_frames)

\* lines 167-170
ForgetKeepTotal(o) == IF NoteFinished(o) THEN [o EXCEPT !.frames_played = 0 - 1] ELSE o
Forget(o) ==
    IF NoteFinished(o)
    THEN [o EXCEPT !.frames_played = 0 - 1, !.num_frames = 0]
    ELSE o

\* lines 162-173: the bookkeeping loop and the return
paCallback_book ==
    /\ cb_pc = "phase3"
    /\ oscillators' = [v \in Voices |-> Forget(Advance(oscillators[v]))]
    /\ played' = [v \in Voices |->
                    IF oscillators'[v].frames_played = 0 - 1
                       /\ Len(played[v]) < Len(dequeued[v])
                    THEN Append(played[v], cur_frames[v])
                    ELSE played[v]]
    /\ cb_pc' = "idle"
    /\ UNCHANGED <<stream, cb_i, ctl_vars, calls, hist_ctl, dequeued, posts, cur_frames, uaf>>

\* ----------------------------------------------------------- specification
paCallback == paCallback_enter \/ paCallback_refill \/ paCallback_render \/ paCallback_book

Next ==
    \/ playOsc
    \/ restOsc
    \/ endOsc
    \/ termSynth_enter
    \/ termSynth_wait
    \/ termSynth_free
    \/ termSynth_stop
    \/ termSynth_close
    \/ paCallback_enter
    \/ paCallback_refill
    \/ paCallback_render
    \/ paCallback_book

Spec == Init /\ [][Next]_vars

\* The steps of a shutdown
ShutdownNext ==
    \/ playOscBeforeShutdown
    \/ endOscBeforeShutdown
    \/ termSynth_enter
    \/ termSynth_wait
    \/ termSynth_free
    \/ termSynth_stop
    \/ termSynth_close
    \/ paCallback_enter
    \/ paCallback_refill
    \/ paCallback_render
    \/ paCallback_book

\* The driver keeps invoking the callback while the stream runs and each
\* invocation runs to its end; the control thread, once inside termSynth, is
\* scheduled whenever it is not blocked. Pa_StopStream can take effect only
\* between two invocations, which the stream is again and again, and it does.
FairSpec ==
    /\ Init
    /\ [][ShutdownNext]_vars
    /\ WF_vars(paCallback)
    /\ WF_vars(termSynth_wait \/ termSynth_free \/ termSynth_close)
    /\ SF_vars(termSynth_stop)

\* ------------------------------------------------------------- rendering
\* The rendering of single notes: before the first invocation the client has
\* called playOsc, restOsc or endOsc at most once on each voice, with a
\* duration of RenderDurations and a frequency of RenderFreqs, and makes no
\* call afterwards.
RenderDurations == {0, 1, 5, 6, MaxMs}
RenderFreqs == {0, 440, 20000}

\* the notes lines 212-215, 226-229, 240-243 build
RenderNotes ==
    {Note(NOTE, ms, hz) : ms \in RenderDurations, hz \in RenderFreqs}
        \cup {Note(REST, ms, 0) : ms \in RenderDurations}
        \cup {Note(END, 0, 0)}

RenderQueues == {<<>>} \cup {<<n>> : n \in RenderNotes}

\* initSynth followed by those calls
RenderInit ==
    /\ \E q \in [Voices -> RenderQueues] :
          /\ oscillators = [v \in Voices |-> [InitOsc EXCEPT !.rbuf = q[v]]]
          /\ accepted = q
          /\ calls = Cardinality({v \in Voices : q[v] # <<>>})
    /\ stream = "running"
    /\ cb_pc = "idle"
    /\ cb_i = 0
    /\ ctl_pc = "client"
    /\ term_i = 0
    /\ invalid_calls = 0
    /\ dropped = [v \in Voices |-> <<>>]
    /\ dequeued = [v \in Voices |-> <<>>]
    /\ posts = [v \in Voices |-> 0]
    /\ played = [v \in Voices |-> <<>>]
    /\ cur_frames = [v \in Voices |-> 0]
    /\ uaf = [v \in Voices |-> FALSE]

RenderNext ==
    \/ paCallback_enter
    \/ paCallback_refill
    \/ paCallback_render
    \/ paCallback_book

RenderSpec == RenderInit /\ [][RenderNext]_vars

\* ------------------------------------------------------------------ claims
IsPrefix(s, t) == Len(s) <= Len(t) /\ SubSeq(t, 1, Len(s)) = s
HasEnd(s) == \E k \in 1 .. Len(s) : s[k].type = END
CeilDiv(a, b) == (a + (b - 1)) \div b

\* the voice's ring-buffer storage has not been freed
Live(v) == oscillators[v].rbuf_ptr = "alloc"

\* termSynth's sem_wait on voice v has returned
Waited(v) ==
    \/ ctl_pc \in {"stop", "close", "done"}
    \/ ctl_pc = "sem_wait" /\ term_i > v
    \/ ctl_pc = "free" /\ term_i >= v

\* endOsc(v) has been called, whether or not its write was accepted
EndCalled(v) == HasEnd(accepted[v]) \/ HasEnd(dropped[v])

\* a dequeued note is the voice's current one
Current(v) == Len(played[v]) < Len(dequeued[v])

\* C1: a sem_post for an END read from a voice's (live) ring buffer happens
\* only when every note accepted before that END has been dequeued, in order,
\* and each has been current for whole buffers covering its duration, the
\* voice being idle again; and termSynth's wait on a voice returns only after
\* a post on it.
C1_PostAfterEarlierNotes ==
    /\ [][\A v \in Voices :
            (posts'[v] > posts[v] /\ Live(v)) =>
                LET n == Len(dequeued'[v]) IN
                /\ n = Len(dequeued[v]) + 1
                /\ dequeued'[v][n].type = END
                /\ dequeued'[v] = SubSeq(accepted[v], 1, n)
                /\ oscillators[v].frames_played = 0 - 1
                /\ Len(played[v]) = n - 1
                /\ \A k \in 1 .. (n - 1) :
                      /\ played[v][k] >= FRAMES_PER_BUFFER
                      /\ played[v][k] % FRAMES_PER_BUFFER = 0
                      /\ played[v][k] * 1000 >= dequeued[v][k].ms * SAMPLE_RATE]_vars
    /\ [](\A v \in Voices : Waited(v) => posts[v] >= 1)

\* C1 witness: termSynth's wait on a voice has returned after a 10 ms note
\* and an END were dequeued from its live buffer
C1_Witness ==
    \E v \in Voices :
        /\ Waited(v)
        /\ ~uaf[v]
        /\ Len(dequeued[v]) = 2
        /\ dequeued[v][1] = Note(NOTE, MaxMs, 440)
        /\ dequeued[v][2].type = END
        /\ played[v][1] = 3 * FRAMES_PER_BUFFER

\* C2: the wait of termSynth on voice v's semaphore, made after endOsc(v) was
\* called, returns. A post comes only from an END read from the voice's ring
\* buffer, so the wait can return only if the semaphore has been posted or an
\* END is still in the buffer: that is what holds of every state in which
\* termSynth waits on v after endOsc(v).
C2_WaitAfterEndReturns ==
    \A v \in Voices :
        (ctl_pc = "sem_wait" /\ term_i = v /\ EndCalled(v))
            => (oscillators[v].finished > 0 \/ HasEnd(oscillators[v].rbuf))

\* C3 as stated: whenever termSynth has been called, the stream is eventually
\* closed.
C3_TermSynthCloses == (ctl_pc # "client") ~> (stream = "closed")

\* C3 as amended: termSynth writes to no ring buffer; it closes the stream
\* only if an END was accepted on every voice, and if an END was accepted on
\* every voice before the call then it eventually closes the stream.
C3_TermSynthClosesAfterEnds ==
    /\ [][ctl_pc # "client" =>
            /\ accepted' = accepted
            /\ \A v \in Voices :
                  Len(oscillators'[v].rbuf) <= Len(oscillators[v].rbuf)]_vars
    /\ [](stream = "closed" => \A v \in Voices : HasEnd(accepted[v]))
    /\ ((ctl_pc # "client" /\ \A v \in Voices : HasEnd(accepted[v]))
            ~> (stream = "closed"))

\* C3 witness: termSynth has closed the stream
C3_Witness == stream = "closed" /\ ctl_pc = "done"

\* C4: a voice whose ring-buffer storage has been freed has an empty queue,
\* and no note has been read from freed storage.
C4_FreedQueueDrained ==
    \A v \in Voices :
        ~Live(v) => (oscillators[v].rbuf = <<>> /\ ~uaf[v])

\* C5: a voice's semaphore has been posted 0 times if no END has been
\* dequeued for it and exactly once otherwise.
C5_PostedExactlyOnce ==
    \A v \in Voices : posts[v] = IF HasEnd(dequeued[v]) THEN 1 ELSE 0

\* C6: nothing is dequeued for a voice after an END: an END is the last note
\* of the voice's dequeued sequence.
C6_NothingDequeuedAfterEnd ==
    \A v \in Voices :
        \A k \in 1 .. Len(dequeued[v]) : dequeued[v][k].type = END => k = Len(dequeued[v])

\* the frames C7 states for a duration: ceil((ms/1000*sample_rate) /
\* frames_per_buffer) * frames_per_buffer
QuantizedFrames(ms) ==
    CeilDiv(ms * SAMPLE_RATE, 1000 * FRAMES_PER_BUFFER) * FRAMES_PER_BUFFER

\* C7 as stated: every finished NOTE or REST was current for
\* QuantizedFrames(ms) frames, which is at least its duration in frames.
C7_RenderedDuration ==
    \A v \in Voices :
        \A k \in 1 .. Len(played[v]) :
            dequeued[v][k].type \in {NOTE, REST} =>
                /\ played[v][k] = QuantizedFrames(dequeued[v][k].ms)
                /\ played[v][k] * 1000 >= dequeued[v][k].ms * SAMPLE_RATE

\* C7 as amended: every finished NOTE or REST was current for
\* QuantizedFrames(ms) frames if ms > 0 and for one buffer if ms = 0, which is
\* at least its duration in frames.
C7_RenderedDurationAtLeastOneBuffer ==
    \A v \in Voices :
        \A k \in 1 .. Len(played[v]) :
            dequeued[v][k].type \in {NOTE, REST} =>
                /\ played[v][k] = IF dequeued[v][k].ms = 0
                                  THEN FRAMES_PER_BUFFER
                                  ELSE QuantizedFrames(dequeued[v][k].ms)
                /\ played[v][k] * 1000 >= dequeued[v][k].ms * SAMPLE_RATE

\* C7 witness: a voice has finished a REST of 0 ms and a NOTE of MaxMs ms
C7_Witness ==
    \E v \in Voices :
        /\ Len(played[v]) = 2
        /\ dequeued[v][1] = Note(REST, 0, 0)
        /\ dequeued[v][2] = Note(NOTE, MaxMs, 440)

\* the step is the iteration of paCallback's first loop for voice v
RefillStep(v) ==
    /\ cb_pc = "phase1"
    /\ cb_i = v
    /\ ~(cb_pc' = "phase1" /\ cb_i' = cb_i)

\* a dequeued note that lasts less than one buffer: a NOTE or REST of a short
\* duration, or an END
Short(n) == n.type \in {NOTE, REST, END} /\ NumFrames(Reduce(n).ms) < FRAMES_PER_BUFFER

\* C8: a dequeued note of fewer than frames_per_buffer frames (a REST of 0 ms
\* included) is current for exactly one invocation: it was current for one
\* buffer when it finished, it is no longer current when the invocation that
\* dequeued it returns, and an invocation that finds the voice idle and its
\* queue not empty dequeues the next note.
C8_ShortNoteOneBuffer ==
    /\ [](\A v \in Voices :
            /\ \A k \in 1 .. Len(played[v]) :
                  Short(dequeued[v][k]) => played[v][k] = FRAMES_PER_BUFFER
            /\ (cb_pc = "idle" /\ Current(v))
                  => ~Short(dequeued[v][Len(dequeued[v])])
            /\ (cb_pc = "idle" /\ ~Current(v))
                  => oscillators[v].frames_played = 0 - 1)
    /\ [][\A v \in Voices :
            (RefillStep(v) /\ ~Current(v) /\ oscillators[v].rbuf # <<>>)
            => /\ Len(dequeued'[v]) = Len(dequeued[v]) + 1
               /\ oscillators'[v].rbuf = Tail(oscillators[v].rbuf)]_vars

\* C8 witness: a voice has finished a REST of 0 ms and has dequeued the note
\* of 1 ms queued behind it
C8_Witness ==
    \E v \in Voices :
        /\ Len(played[v]) = 1
        /\ dequeued[v][1] = Note(REST, 0, 0)
        /\ Len(dequeued[v]) = 2
        /\ dequeued[v][2] = Note(NOTE, 1, 440)

CallsOn(v) == Len(accepted[v]) + Len(dropped[v])

\* C10: no ring buffer holds more than its capacity; a call on a voice whose
\* ring buffer holds its capacity returns having changed neither the buffer
\* nor the accepted notes, its note being lost.
C10_FullQueueDrops ==
    /\ [](\A v \in Voices : Len(oscillators[v].rbuf) <= RingCapacity)
    /\ [][\A v \in Voices :
            (CallsOn(v)' = CallsOn(v) + 1 /\ Len(oscillators[v].rbuf) = RingCapacity)
            => /\ oscillators'[v].rbuf = oscillators[v].rbuf
               /\ accepted'[v] = accepted[v]
               /\ Len(dropped'[v]) = Len(dropped[v]) + 1
               /\ ctl_pc' = "client"]_vars

\* C10 witness: a call on a full ring buffer has returned, its note lost
C10_Witness ==
    \E v \in Voices :
        /\ Len(dropped[v]) = 1
        /\ Len(oscillators[v].rbuf) = RingCapacity
        /\ ctl_pc = "client"

\* the calls made so far with the ids of voices 0 .. v
RECURSIVE CallsUpTo(_)
CallsUpTo(v) == IF v < 0 THEN 0 ELSE CallsOn(v) + CallsUpTo(v - 1)

\* the step is a play/rest/end call with voice v's id
CallOn(v) == CallsOn(v)' = CallsOn(v) + 1

\* the note of the call the step makes on voice v
Called(v) ==
    IF Len(accepted'[v]) > Len(accepted[v])
    THEN accepted'[v][Len(accepted'[v])]
    ELSE dropped'[v][Len(dropped'[v])]

\* C11: a play, rest or end call with an id >= NUM_OSCILLATORS returns having
\* changed no voice: every ring buffer and every playback field is as before
\* the call, and nothing was accepted or dropped on any voice. (The calls
\* counted as invalid are exactly those that were made on no voice.)
C11_InvalidIdNoOp ==
    /\ [][invalid_calls' > invalid_calls =>
            /\ oscillators' = oscillators
            /\ accepted' = accepted
            /\ dropped' = dropped
            /\ ctl_pc' = "client"]_vars
    /\ [](calls = invalid_calls + CallsUpTo(NUM_OSCILLATORS - 1))

\* C11 witness: a call with an invalid id has been made after a valid one,
\* whose note a voice is playing
C11_Witness ==
    /\ invalid_calls = 1
    /\ calls = 2
    /\ \E v \in Voices : oscillators[v].frames_played = FRAMES_PER_BUFFER

\* a note as playOsc, restOsc or endOsc builds it
ProducerNote(n) ==
    /\ n.type \in {NOTE, REST, END}
    /\ n.type = REST => n.hz = 0
    /\ n.type = END => (n.ms = 0 /\ n.hz = 0)

\* the step leaves every field of voice v but its ring buffer as it is
OnlyQueueChanged(v) ==
    [oscillators'[v] EXCEPT !.rbuf = oscillators[v].rbuf] = oscillators[v]

\* C12 as stated: a call with a valid id appends exactly one note, a NOTE, a
\* REST or an END, at the tail of that voice's ring buffer and changes nothing
\* else; no ring buffer ever holds a WAITING note.
C12_ValidCallAppends ==
    /\ [][\A v \in Voices :
            CallOn(v) =>
                /\ ProducerNote(Called(v))
                /\ oscillators'[v].rbuf = Append(oscillators[v].rbuf, Called(v))
                /\ OnlyQueueChanged(v)
                /\ \A w \in Voices \ {v} : oscillators'[w] = oscillators[w]]_vars
    /\ [](\A v \in Voices :
            \A k \in 1 .. Len(oscillators[v].rbuf) : oscillators[v].rbuf[k].type # WAITING)

\* C12 as amended: the same, but that a call on a voice whose ring buffer
\* holds its capacity leaves the ring buffer as it is.
C12_ValidCallAppendsUnlessFull ==
    /\ [][\A v \in Voices :
            CallOn(v) =>
                /\ ProducerNote(Called(v))
                /\ oscillators'[v].rbuf =
                      IF Len(oscillators[v].rbuf) < RingCapacity
                      THEN Append(oscillators[v].rbuf, Called(v))
                      ELSE oscillators[v].rbuf
                /\ OnlyQueueChanged(v)
                /\ \A w \in Voices \ {v} : oscillators'[w] = oscillators[w]]_vars
    /\ [](\A v \in Voices :
            \A k \in 1 .. Len(oscillators[v].rbuf) : oscillators[v].rbuf[k].type # WAITING)

\* C12 witness: a REST has been appended to a voice's ring buffer while that
\* voice plays the note dequeued before
C12_Witness ==
    \E v \in Voices :
        /\ oscillators[v].rbuf = <<Note(REST, 1, 0)>>
        /\ accepted[v] = <<Note(NOTE, MaxMs, 440), Note(REST, 1, 0)>>
        /\ oscillators[v].frames_played = FRAMES_PER_BUFFER
        /\ oscillators[v].curr_note = Note(NOTE, MaxMs, 440)

\* the step dequeues a note for voice v
Dequeues(v) == Len(dequeued'[v]) > Len(dequeued[v])

\* C13: a note is dequeued for a voice only in the first loop of an
\* invocation, when the voice is idle (frames_played = -1), one note at a
\* time, and the voice is not idle after it; a voice that is not idle keeps
\* its current note and dequeues nothing, whatever its ring buffer holds, and
\* becomes idle only at the end of an invocation, for a NOTE or REST only
\* when the frames played have reached num_frames, which stays as it was
\* until then.
C13_DequeueOnlyWhenIdle ==
    /\ [][\A v \in Voices :
            Dequeues(v) =>
                /\ cb_pc = "phase1" /\ cb_i = v
                /\ oscillators[v].frames_played = 0 - 1
                /\ Len(dequeued'[v]) = Len(dequeued[v]) + 1
                /\ Len(oscillators'[v].rbuf) = Len(oscillators[v].rbuf) - 1
                /\ oscillators'[v].frames_played = 0]_vars
    /\ [][\A v \in Voices :
            oscillators[v].frames_played # 0 - 1 =>
                /\ ~Dequeues(v)
                /\ oscillators'[v].curr_note = oscillators[v].curr_note
                /\ IF oscillators'[v].frames_played = 0 - 1
                   THEN /\ cb_pc = "phase3" /\ cb_pc' = "idle"
                        /\ oscillators[v].curr_note.type \in {NOTE, REST} =>
                              oscillators[v].frames_played + FRAMES_PER_BUFFER
                                  >= oscillators[v].num_frames
                   ELSE oscillators'[v].num_frames = oscillators[v].num_frames]_vars

\* C13 witness: an invocation has passed its first loop with a note queued
\* behind the NOTE the voice is playing
C13_Witness ==
    \E v \in Voices :
        /\ cb_pc = "phase2"
        /\ oscillators[v].frames_played = FRAMES_PER_BUFFER
        /\ oscillators[v].curr_note = Note(NOTE, MaxMs, 440)
        /\ oscillators[v].rbuf # <<>>
        /\ Len(dequeued[v]) = 1

\* C14: the first loop's iteration for an idle voice with an empty ring
\* buffer completes, dequeuing and posting nothing, and leaves the voice with
\* the WAITING note of 0 ms, num_frames 0 and frames_played 0; the sample
\* loop then gets silent frames from the voice and leaves its phases as they
\* are; the bookkeeping loop makes the voice idle as the invocation returns;
\* and the first loop's iteration for an idle voice with a note in its ring
\* buffer dequeues it.
C14_EmptyQueueWaits ==
    /\ [][\A v \in Voices :
            (RefillStep(v) /\ oscillators[v].frames_played = 0 - 1
                           /\ oscillators[v].rbuf = <<>>) =>
                /\ oscillators'[v].curr_note = Note(WAITING, 0, 0)
                /\ oscillators'[v].num_frames = 0
                /\ oscillators'[v].frames_played = 0
                /\ oscillators'[v].finished = oscillators[v].finished
                /\ ~Dequeues(v)]_vars
    /\ [][\A v \in Voices :
            (cb_pc = "phase2" /\ cb_pc' # "phase2"
                              /\ oscillators[v].curr_note = Note(WAITING, 0, 0)) =>
                /\ getNextFrame(oscillators[v]) = [left |-> Zero, right |-> Zero]
                /\ oscillators'[v].left_phase = oscillators[v].left_phase
                /\ oscillators'[v].right_phase = oscillators[v].right_phase]_vars
    /\ [][\A v \in Voices :
            (cb_pc = "phase3" /\ cb_pc' # "phase3"
                              /\ oscillators[v].curr_note = Note(WAITING, 0, 0)) =>
                /\ oscillators'[v].frames_played = 0 - 1
                /\ cb_pc' = "idle"]_vars
    /\ [][\A v \in Voices :
            (RefillStep(v) /\ oscillators[v].frames_played = 0 - 1
                           /\ oscillators[v].rbuf # <<>>) =>
                /\ Dequeues(v)
                /\ oscillators'[v].rbuf = Tail(oscillators[v].rbuf)]_vars

\* C14 witness: an invocation that found a voice's ring buffer empty has
\* rendered the WAITING note, and a note was accepted on the voice meanwhile
C14_Witness ==
    \E v \in Voices :
        /\ cb_pc = "phase3"
        /\ oscillators[v].curr_note = Note(WAITING, 0, 0)
        /\ oscillators[v].frames_played = 0
        /\ oscillators[v].rbuf = <<Note(REST, 1, 0)>>
        /\ dequeued[v] = <<>>

\* the voice has a current note: paCallback has loaded it and not forgotten it
Loading(v) == oscillators[v].frames_played # 0 - 1

\* C15 as stated: the num_frames of a loaded note is the integer nearest to
\* ms * 44.1 (a half counted upwards), 0 for the WAITING note.
C15_FramesRounded ==
    \A v \in Voices :
        Loading(v) =>
            oscillators[v].num_frames = ((oscillators[v].curr_note.ms * 882) + 10) \div 20

\* C15 as amended: the num_frames of a loaded note is the integer part of
\* ms * 44.1, 0 for the WAITING note.
C15_FramesTruncated ==
    \A v \in Voices :
        Loading(v) =>
            /\ oscillators[v].num_frames = (oscillators[v].curr_note.ms * 441) \div 10
            /\ oscillators[v].curr_note.type = WAITING => oscillators[v].num_frames = 0

\* C15 witness: a note of 6 ms is loaded with 264 frames, where 6 * 44.1 is
\* 264.6
C15_Witness ==
    \E v \in Voices :
        /\ oscillators[v].curr_note.ms = 6
        /\ oscillators[v].frames_played = 0
        /\ oscillators[v].num_frames = 264

\* a phase, kept as its numerator over TABLE_SIZE, is within [0, TABLE_SIZE)
InRange(p) == 0 <= p /\ p < TABLE_SIZE * TABLE_SIZE

\* each of the n samples rendered from phase p on adds hz/TABLE_SIZE to the
\* phase, subtracts TABLE_SIZE when that reaches it, and leaves a phase within
\* [0, TABLE_SIZE)
RECURSIVE PhasesInRange(_, _, _)
PhasesInRange(p, hz, n) ==
    IF n = 0 THEN TRUE
    ELSE IF n = 1
         THEN \A q \in {PhaseAfter(p, hz, 1)} :
                  /\ InRange(q)
                  /\ q = IF p + hz >= TABLE_SIZE * TABLE_SIZE
                         THEN (p + hz) - (TABLE_SIZE * TABLE_SIZE)
                         ELSE p + hz
         ELSE /\ PhasesInRange(p, hz, n \div 2)
              /\ \A q \in {PhaseAfter(p, hz, n \div 2)} :
                     PhasesInRange(q, hz, n - (n \div 2))

\* C16: both phases of every voice are within [0, TABLE_SIZE) in every state
\* and after every sample of the sample loop; a sample of a NOTE advances
\* them by hz/TABLE_SIZE, wrapped by subtracting TABLE_SIZE, and the samples
\* of a silent note leave them as they are.
C16_PhaseInRange ==
    /\ [](\A v \in Voices :
            /\ InRange(oscillators[v].left_phase)
            /\ InRange(oscillators[v].right_phase)
            /\ (cb_pc = "phase2" /\ oscillators[v].curr_note.type = NOTE) =>
                  /\ PhasesInRange(oscillators[v].left_phase,
                                   oscillators[v].curr_note.hz, FRAMES_PER_BUFFER)
                  /\ PhasesInRange(oscillators[v].right_phase,
                                   oscillators[v].curr_note.hz, FRAMES_PER_BUFFER))
    /\ [][\A v \in Voices :
            IF cb_pc = "phase2" /\ oscillators[v].curr_note.type = NOTE
            THEN /\ oscillators'[v].left_phase =
                      (oscillators[v].left_phase
                         + (FRAMES_PER_BUFFER * oscillators[v].curr_note.hz))
                            % (TABLE_SIZE * TABLE_SIZE)
                 /\ oscillators'[v].right_phase =
                      (oscillators[v].right_phase
                         + (FRAMES_PER_BUFFER * oscillators[v].curr_note.hz))
                            % (TABLE_SIZE * TABLE_SIZE)
            ELSE /\ oscillators'[v].left_phase = oscillators[v].left_phase
                 /\ oscillators'[v].right_phase = oscillators[v].right_phase]_vars

\* C16 witness: a NOTE of 20000 Hz has been rendered for two buffers and its
\* phase is not 0
C16_Witness ==
    \E v \in Voices :
        /\ oscillators[v].curr_note = Note(NOTE, MaxMs, 20000)
        /\ oscillators[v].frames_played = 2 * FRAMES_PER_BUFFER
        /\ oscillators[v].left_phase > 0

\* the volume C17 states for sample i, as its numerator over framesPerBuffer
StatedVol(o, i) ==
    IF o.frames_played = 0
    THEN i + 1
    ELSE IF o.num_frames - o.frames_played <= FRAMES_PER_BUFFER
         THEN FRAMES_PER_BUFFER - (i + 1)
         ELSE FRAMES_PER_BUFFER

\* C17: at every sample i of the sample loop vol is the stated one: the ramp
\* up in a note's first buffer, else the ramp down when no more than a buffer
\* remains, else 1; a note of at most one buffer is rendered in its first
\* buffer, so it only ramps up; and vol is within [0, 1] in every state.
C17_Volume ==
    /\ [](\A v \in Voices :
            /\ 0 <= oscillators[v].vol /\ oscillators[v].vol <= FRAMES_PER_BUFFER
            /\ cb_pc = "phase2" =>
                  /\ \A i \in 0 .. (FRAMES_PER_BUFFER - 1) :
                        /\ Vol(oscillators[v], i) = StatedVol(oscillators[v], i)
                        /\ 0 <= Vol(oscillators[v], i)
                        /\ Vol(oscillators[v], i) <= FRAMES_PER_BUFFER
                  /\ oscillators[v].num_frames <= FRAMES_PER_BUFFER =>
                        oscillators[v].frames_played = 0)
    /\ [][\A v \in Voices :
            (cb_pc = "phase2" /\ cb_pc' # "phase2") =>
                oscillators'[v].vol = StatedVol(oscillators[v], FRAMES_PER_BUFFER - 1)]_vars

\* C17 witness: the last buffer of a NOTE of MaxMs ms has been rendered, after
\* its first and a full one, and left vol at 0
C17_Witness ==
    \E v \in Voices :
        /\ cb_pc = "phase3"
        /\ oscillators[v].curr_note.type = NOTE
        /\ oscillators[v].curr_note.ms = MaxMs
        /\ oscillators[v].frames_played = 2 * FRAMES_PER_BUFFER
        /\ oscillators[v].vol = 0

\* C18: at every sample i of the sample loop, what a voice playing a NOTE
\* adds to the output frame is, on each channel, the table element at the
\* integer part of the phase multiplied by the vol computed for sample i,
\* divided by the number of voices.
C18_EnvelopeApplied ==
    cb_pc = "phase2" =>
        \A v \in Voices :
            oscillators[v].curr_note.type = NOTE =>
                \A i \in 0 .. (FRAMES_PER_BUFFER - 1) :
                    /\ Contribution(oscillators[v], i).frame.left.gain = Vol(oscillators[v], i)
                    /\ Contribution(oscillators[v], i).frame.right.gain = Vol(oscillators[v], i)
                    /\ Contribution(oscillators[v], i).over = NUM_OSCILLATORS

\* C19: between invocations (before the first and after each returns) every
\* voice's frames_played is -1 or a positive multiple of framesPerBuffer
\* below num_frames, and in the sample loop no voice's frames_played is -1.
C19_FramesPlayedAtBoundary ==
    \A v \in Voices :
        /\ cb_pc = "idle" =>
              \/ oscillators[v].frames_played = 0 - 1
              \/ /\ oscillators[v].frames_played > 0
                 /\ oscillators[v].frames_played % FRAMES_PER_BUFFER = 0
                 /\ oscillators[v].frames_played < oscillators[v].num_frames
        /\ cb_pc = "phase2" => oscillators[v].frames_played # 0 - 1

\* the same of the voices for which nothing was read from freed storage
C19_FramesPlayedAtBoundaryLive ==
    \A v \in Voices :
        ~uaf[v] =>
            /\ cb_pc = "idle" =>
                  \/ oscillators[v].frames_played = 0 - 1
                  \/ /\ oscillators[v].frames_played > 0
                     /\ oscillators[v].frames_played % FRAMES_PER_BUFFER = 0
                     /\ oscillators[v].frames_played < oscillators[v].num_frames
            /\ cb_pc = "phase2" => oscillators[v].frames_played # 0 - 1

\* C20 as stated: the num_frames of an idle voice is 0, in the initial state
\* too.
C20_IdleTotalZero ==
    \A v \in Voices :
        oscillators[v].frames_played = 0 - 1 => oscillators[v].num_frames = 0

\* C20 as amended: the num_frames of an idle voice is 0 once an invocation
\* has loaded the voice, and ULONG_MAX, as initOscillators leaves it, until
\* then; every voice that is idle as an invocation returns has num_frames 0.
C20_IdleTotalZeroOnceLoaded ==
    /\ [](\A v \in Voices :
            /\ oscillators[v].frames_played = 0 - 1 =>
                  oscillators[v].num_frames \in {0, ULONG_MAX}
            /\ oscillators[v].num_frames = ULONG_MAX =>
                  /\ oscillators[v].frames_played = 0 - 1
                  /\ dequeued[v] = <<>>
                  /\ oscillators[v].curr_note = Note(NOTE, 0, 0)
                  /\ oscillators[v].vol = 0)
    /\ [][\A v \in Voices :
            /\ oscillators[v].num_frames # ULONG_MAX =>
                  oscillators'[v].num_frames # ULONG_MAX
            /\ (cb_pc = "phase1" /\ cb_pc' = "phase2") =>
                  oscillators'[v].num_frames # ULONG_MAX
            /\ (cb_pc = "phase3" /\ cb_pc' = "idle"
                                 /\ oscillators'[v].frames_played = 0 - 1) =>
                  oscillators'[v].num_frames = 0]_vars

\* C20 witness: a voice is idle, with num_frames 0, after the invocation in
\* which the NOTE it played finished
C20_Witness ==
    \E v \in Voices :
        /\ cb_pc = "idle"
        /\ oscillators[v].frames_played = 0 - 1
        /\ oscillators[v].num_frames = 0
        /\ oscillators[v].curr_note = Note(NOTE, MaxMs, 440)
        /\ Len(played[v]) = 1

====
